---- MODULE Spec2Model ----
(***************************************************************************)
(* Model of apps/server/src/scripts/llm_client.py: one process invocation  *)
(* of main(), from the argument check to process exit.  The external chat  *)
(* client (LlmChat, UserMessage) is an opaque collaborator: each of its    *)
(* operations either returns or raises an Exception subclass.              *)
(***************************************************************************)
EXTENDS Integers, Sequences, FiniteSets, TLC

\* ---------------------------------------------------------------- bounds
MaxClock == 3          \* wall-clock ticks that may pass during an invocation
MaxExtraArgs == 1      \* positional arguments beyond sys.argv[1]

\* ------------------------------------------------------- Python values
\* A Python scalar is a record [t |-> type name, v |-> printed value].
Str(s) == [t |-> "str", v |-> s]
PyInt(s) == [t |-> "int", v |-> s]
PyNone == [t |-> "NoneType", v |-> "None"]
PyTrue == [t |-> "bool", v |-> "True"]
PyFalse == [t |-> "bool", v |-> "False"]
PyList == [t |-> "list", v |-> "[1]"]
PyObject == [t |-> "object", v |-> "<object>"]
Unset == [t |-> "unset", v |-> ""]

\* A JSON scalar is a record [t |-> JSON type, v |-> literal text].
JStr(s) == [t |-> "string", v |-> s]
JNum(s) == [t |-> "number", v |-> s]
JNull == [t |-> "null", v |-> "null"]
JTrue == [t |-> "true", v |-> "true"]
JFalse == [t |-> "false", v |-> "false"]
JArray == [t |-> "array", v |-> "[1]"]

\* Python truth value, as tested by `not x`.
Truthy_not_none(x) == x.t /= "NoneType"

Truthy(x) ==
    CASE x.t = "str" -> x.v /= ""
      [] x.t = "int" -> x.v /= "0"
      [] x.t = "bool" -> x.v = "True"
      [] x.t = "NoneType" -> FALSE
      [] x.t = "list" -> x.v /= "[]"
      [] OTHER -> TRUE

\* json.loads on one JSON value.
JsonDecode(j) ==
    CASE j.t = "string" -> Str(j.v)
      [] j.t = "number" -> PyInt(j.v)
      [] j.t = "null" -> PyNone
      [] j.t = "true" -> PyTrue
      [] j.t = "false" -> PyFalse
      [] j.t = "array" -> PyList

\* json.dumps on one Python value (defined on the serializable ones).
JsonEncode(x) ==
    CASE x.t = "str" -> JStr(x.v)
      [] x.t = "int" -> JNum(x.v)
      [] x.t = "NoneType" -> JNull
      [] x.t = "bool" -> IF x.v = "True" THEN JTrue ELSE JFalse
      [] x.t = "list" -> JArray

Serializable(d) == \A k \in DOMAIN d : d[k].t \in {"str", "int", "NoneType", "bool", "list"}

json_dumps(d) == [k \in DOMAIN d |-> JsonEncode(d[k])]

\* dict.get(key, default): keyed on presence of the key.
dict_get_or(d, k, default) ==
    IF k \in DOMAIN d /\ Truthy(d[k]) THEN d[k] ELSE default

dict_get(d, k, default) ==
    IF k \in DOMAIN d THEN d[k] ELSE default

\* datetime.isoformat() of the wall clock.
isoformat(n) == "2026-11-06T00:00:0" \o ToString(n)

\* ------------------------------------------------------------ exceptions
Exc(type, msg) == [type |-> type, msg |-> msg, code |-> 1]

SystemExit(code) == [type |-> "SystemExit", msg |-> ToString(code), code |-> code]

\* Failures the collaborator can raise: Exception subclasses with a message.
Failures ==
    { Exc("ConnectionError", "network down"),
      Exc("AuthenticationError", "bad key"),
      Exc("ValueError", "") }

\* Classes deriving from BaseException but not from Exception.
NonExceptions == {"SystemExit", "KeyboardInterrupt", "GeneratorExit"}

\* `except Exception` (line 52): which raised classes the clause matches.
Catches_base(type) == TRUE

Catches_narrow(type) == type \in {f.type : f \in Failures}

Catches(type) == type \notin NonExceptions

\* ----------------------------------------------------------- the inputs
ProgName == [kind |-> "malformed", src |-> "llm_client.py"]

MalformedTexts ==
    { [kind |-> "malformed", src |-> "{bad"],
      [kind |-> "malformed", src |-> ""] }

ScalarTexts ==
    { [kind |-> "scalar", val |-> JArray],
      [kind |-> "scalar", val |-> JNull] }

\* str(JSONDecodeError) for the malformed texts.
DecodeErrorMsg(text) ==
    IF text.src = "{bad"
    THEN "Expecting property name enclosed in double quotes: line 1 column 2 (char 1)"
    ELSE "Expecting value: line 1 column 1 (char 0)"

\* str(AttributeError) of `.get` on a value that is not a dict.
AttributeErrorMsg(x) == "'" \o x.t \o "' object has no attribute 'get'"

MemberValues ==
    [ message |-> {JStr(""), JStr("hi"), JNull, JNum("5")},
      apiKey |-> {JStr(""), JStr("k"), JNull},
      sessionId |-> {JStr("s1")},
      provider |-> {JStr("anthropic")},
      model |-> {JStr("claude")},
      systemMessage |-> {JStr("Be brief.")} ]

FieldNames == DOMAIN MemberValues

Absent == [t |-> "absent", v |-> ""]

\* One choice per field: a value, or the field left out of the object.
MemberChoices ==
    [ message : MemberValues.message \cup {Absent},
      apiKey : MemberValues.apiKey \cup {Absent},
      sessionId : MemberValues.sessionId \cup {Absent},
      provider : MemberValues.provider \cup {Absent},
      model : MemberValues.model \cup {Absent},
      systemMessage : MemberValues.systemMessage \cup {Absent} ]

MembersOf(c) == [k \in {f \in FieldNames : c[f] /= Absent} |-> c[k]]

ObjectTexts == { [kind |-> "object", members |-> MembersOf(c)] : c \in MemberChoices }

ArgTexts == MalformedTexts \cup ScalarTexts \cup ObjectTexts

Junk == [kind |-> "malformed", src |-> "--verbose"]

RECURSIVE Junks(_)
Junks(n) == IF n = 0 THEN << >> ELSE Append(Junks(n - 1), Junk)

Argvs ==
    { <<ProgName>> } \cup
    { <<ProgName, a>> \o Junks(n) : a \in ArgTexts, n \in 0..MaxExtraArgs }

EnvVar == "EMERGENT_LLM_KEY"

\* os.environ restricted to the one variable read: a set of <<name, value>> pairs.
Envs == { {} } \cup { { <<EnvVar, s>> } : s \in {"", "envkey"} }

\* os.getenv(name, default)
os_getenv(environ, name, default) ==
    IF \E p \in environ : p[1] = name
    THEN Str((CHOOSE p \in environ : p[1] = name)[2])
    ELSE default

Responses == { Str("hello"), Str(""), PyObject }

\* ----------------------------------------------------------------- state
VARIABLES
    argv,            \* sys.argv: the program name, then the positional texts
    env,             \* the process environment
    now,             \* wall clock
    pc,              \* position of main()
    input_data, session_id, message, provider, model, api_key, system_message,
    chat, user_message, response,      \* locals of main()
    stdout,          \* the lines printed, each a JSON object
    exitCode,        \* process exit status, -1 while running
    termination,     \* "running", "return", "sys.exit" or "uncaught"
    calls,           \* library and collaborator operations started, in order
    results,         \* collaborator operations completed, in order
    recvAt           \* clock value when send_message returned, -1 before

world == <<argv, env>>
locals == <<input_data, session_id, message, provider, model, api_key,
            system_message, chat, user_message, response>>
process == <<stdout, exitCode, termination>>
history == <<calls, results, recvAt>>
vars == <<world, now, pc, locals, process, history>>

Call(op, args) == [op |-> op, args |-> args]
Returned(op, val) == [op |-> op, kind |-> "return", val |-> val, etype |-> ""]
Raised(op, e) == [op |-> op, kind |-> "raise", val |-> Str(e.msg), etype |-> e.type]

CollaboratorOps == {"LlmChat", "with_model", "UserMessage", "send_message"}

Init ==
    /\ argv \in Argvs
    /\ env \in Envs
    /\ now = 0
    /\ pc = "check_argv"
    /\ input_data = Unset /\ session_id = Unset /\ message = Unset
    /\ provider = Unset /\ model = Unset /\ api_key = Unset
    /\ system_message = Unset /\ chat = Unset /\ user_message = Unset
    /\ response = Unset
    /\ stdout = << >>
    /\ exitCode = -1
    /\ termination = "running"
    /\ calls = << >>
    /\ results = << >>
    /\ recvAt = -1

\* ------------------------------------------------- raising and catching
\* The body printed by the except clause (lines 53-56).
ExceptBody_notype(e) == [error |-> Str(e.msg)]

ExceptBody(e) == [error |-> Str(e.msg), type |-> Str(e.type)]

\* An exception leaves main(): SystemExit ends the process with its code,
\* anything else is an uncaught traceback with status 1.
Propagate(out, e) ==
    /\ stdout' = out
    /\ pc' = "exited"
    /\ IF e.type = "SystemExit"
       THEN exitCode' = e.code /\ termination' = "sys.exit"
       ELSE exitCode' = 1 /\ termination' = "uncaught"

\* The except clause, lines 52-57: print the error body, then sys.exit(1),
\* which is raised outside the try block and so leaves main().
Handler_noexit(out, e) ==
    /\ stdout' = Append(out, json_dumps(ExceptBody(e)))
    /\ pc' = "exited"
    /\ exitCode' = 0
    /\ termination' = "return"

Handler(out, e) ==
    Propagate(Append(out, json_dumps(ExceptBody(e))), SystemExit(1))

\* Exception e raised inside the try block (lines 14-50) after `out` was printed.
RaiseFrom(out, e) ==
    IF Catches(e.type) THEN Handler(out, e) ELSE Propagate(out, e)

\* ---------------------------------------------------------------- steps
\* lines 16-18
CheckArgv_lt1 ==
    /\ pc = "check_argv"
    /\ IF Len(argv) < 1
       THEN RaiseFrom(Append(stdout, json_dumps([error |-> Str("No input provided")])),
                      SystemExit(1))
       ELSE pc' = "parse" /\ UNCHANGED process
    /\ UNCHANGED <<world, now, locals, history>>

CheckArgv ==
    /\ pc = "check_argv"
    /\ IF Len(argv) < 2
       THEN RaiseFrom(Append(stdout, json_dumps([error |-> Str("No input provided")])),
                      SystemExit(1))
       ELSE pc' = "parse" /\ UNCHANGED process
    /\ UNCHANGED <<world, now, locals, history>>

\* line 20: json.loads(sys.argv[1])
ParseInput ==
    /\ pc = "parse"
    /\ IF Len(argv) < 2
       THEN /\ RaiseFrom(stdout, Exc("IndexError", "list index out of range"))
            /\ UNCHANGED <<input_data, calls>>
       ELSE /\ calls' = Append(calls, Call("json.loads", << >>))
            /\ IF argv[2].kind = "malformed"
               THEN /\ RaiseFrom(stdout, Exc("JSONDecodeError", DecodeErrorMsg(argv[2])))
                    /\ UNCHANGED input_data
               ELSE /\ input_data' =
                         IF argv[2].kind = "object"
                         THEN [t |-> "dict",
                               v |-> [k \in DOMAIN argv[2].members |->
                                         JsonDecode(argv[2].members[k])]]
                         ELSE JsonDecode(argv[2].val)
                    /\ pc' = "read_fields"
                    /\ UNCHANGED process
    /\ UNCHANGED <<world, now, session_id, message, provider, model, api_key,
                   system_message, chat, user_message, response, results, recvAt>>

\* lines 22-27
ReadFields ==
    /\ pc = "read_fields"
    /\ IF input_data.t /= "dict"
       THEN /\ RaiseFrom(stdout, Exc("AttributeError", AttributeErrorMsg(input_data)))
            /\ UNCHANGED <<session_id, message, provider, model, api_key,
                           system_message, calls>>
       ELSE /\ session_id' = dict_get(input_data.v, "sessionId", Str("default"))
            /\ message' = dict_get(input_data.v, "message", Str(""))
            /\ provider' = dict_get(input_data.v, "provider", Str("openai"))
            /\ model' = dict_get(input_data.v, "model", Str("gpt-4o-mini"))
            /\ calls' = Append(calls, Call("os.getenv", <<Str(EnvVar)>>))
            /\ api_key' = dict_get(input_data.v, "apiKey", os_getenv(env, EnvVar, Str("")))
            /\ system_message' = dict_get(input_data.v, "systemMessage",
                                          Str("You are Shadow, an AI coding agent."))
            /\ pc' = "validate_message"
            /\ UNCHANGED process
    /\ UNCHANGED <<world, now, input_data, chat, user_message, response, results, recvAt>>

\* lines 29-31
ValidateMessage ==
    /\ pc = "validate_message"
    /\ IF ~Truthy(message)
       THEN RaiseFrom(Append(stdout, json_dumps([error |-> Str("No message provided")])),
                      SystemExit(1))
       ELSE pc' = "validate_api_key" /\ UNCHANGED process
    /\ UNCHANGED <<world, now, locals, history>>

\* lines 33-35
ValidateApiKey_skip ==
    /\ pc = "validate_api_key"
    /\ pc' = "construct"
    /\ UNCHANGED <<world, now, locals, process, history>>

ValidateApiKey ==
    /\ pc = "validate_api_key"
    /\ IF ~Truthy(api_key)
       THEN RaiseFrom(Append(stdout, json_dumps([error |-> Str("No API key provided")])),
                      SystemExit(1))
       ELSE pc' = "construct" /\ UNCHANGED process
    /\ UNCHANGED <<world, now, locals, history>>

\* line 38: LlmChat(api_key, session_id, system_message) returns or raises
ConstructChat ==
    /\ pc = "construct"
    /\ calls' = Append(calls, Call("LlmChat", <<api_key, session_id, system_message>>))
    /\ \/ /\ chat' = [t |-> "LlmChat", v |-> session_id.v]
          /\ results' = Append(results, Returned("LlmChat", chat'))
          /\ pc' = "with_model"
          /\ UNCHANGED process
       \/ \E e \in Failures :
            /\ results' = Append(results, Raised("LlmChat", e))
            /\ RaiseFrom(stdout, e)
            /\ UNCHANGED chat
    /\ UNCHANGED <<world, now, input_data, session_id, message, provider, model, api_key,
                   system_message, user_message, response, recvAt>>

\* line 39: chat.with_model(provider, model) returns or raises
WithModel ==
    /\ pc = "with_model"
    /\ calls' = Append(calls, Call("with_model", <<provider, model>>))
    /\ \/ /\ results' = Append(results, Returned("with_model", chat))
          /\ pc' = "user_message"
          /\ UNCHANGED process
       \/ \E e \in Failures :
            /\ results' = Append(results, Raised("with_model", e))
            /\ RaiseFrom(stdout, e)
    /\ UNCHANGED <<world, now, locals, recvAt>>

\* line 42: UserMessage(message) returns or raises
MakeUserMessage ==
    /\ pc = "user_message"
    /\ calls' = Append(calls, Call("UserMessage", <<message>>))
    /\ \/ /\ user_message' = [t |-> "UserMessage", v |-> message.v]
          /\ results' = Append(results, Returned("UserMessage", user_message'))
          /\ pc' = "send"
          /\ UNCHANGED process
       \/ \E e \in Failures :
            /\ results' = Append(results, Raised("UserMessage", e))
            /\ RaiseFrom(stdout, e)
            /\ UNCHANGED user_message
    /\ UNCHANGED <<world, now, input_data, session_id, message, provider, model, api_key,
                   system_message, chat, response, recvAt>>

\* line 43, first half: chat.send_message(user_message) is started and awaited
SendStart ==
    /\ pc = "send"
    /\ calls' = Append(calls, Call("send_message", <<user_message>>))
    /\ pc' = "awaiting"
    /\ UNCHANGED <<world, now, locals, process, results, recvAt>>

\* line 43, second half: the awaited call returns a value
SendReturn ==
    /\ pc = "awaiting"
    /\ \E r \in Responses :
         /\ response' = r
         /\ results' = Append(results, Returned("send_message", r))
    /\ recvAt' = now
    /\ pc' = "emit"
    /\ UNCHANGED <<world, now, input_data, session_id, message, provider, model, api_key,
                   system_message, chat, user_message, process, calls>>

\* line 43, second half: the awaited call raises
SendRaise_retry ==
    /\ pc = "awaiting"
    /\ \E e \in Failures : results' = Append(results, Raised("send_message", e))
    /\ pc' = IF Len(results) < 4 THEN "send" ELSE "emit"
    /\ UNCHANGED <<world, now, locals, process, calls, recvAt>>

SendRaise ==
    /\ pc = "awaiting"
    /\ \E e \in Failures :
         /\ results' = Append(results, Raised("send_message", e))
         /\ RaiseFrom(stdout, e)
    /\ UNCHANGED <<world, now, locals, calls, recvAt>>

\* lines 46-50, then main() returns and asyncio.run() ends the process with 0
EmitSuccess_stale ==
    /\ pc = "emit"
    /\ LET body == [success |-> PyTrue, response |-> response,
                    timestamp |-> Str(isoformat(0))]
       IN IF Serializable(body)
          THEN /\ stdout' = Append(stdout, json_dumps(body))
               /\ pc' = "exited"
               /\ exitCode' = 0
               /\ termination' = "return"
          ELSE RaiseFrom(stdout, Exc("TypeError",
                    "Object of type " \o response.t \o " is not JSON serializable"))
    /\ UNCHANGED <<world, now, locals, history>>

EmitSuccess ==
    /\ pc = "emit"
    /\ LET body == [success |-> PyTrue, response |-> response,
                    timestamp |-> Str(isoformat(now))]
       IN IF Serializable(body)
          THEN /\ stdout' = Append(stdout, json_dumps(body))
               /\ pc' = "exited"
               /\ exitCode' = 0
               /\ termination' = "return"
          ELSE RaiseFrom(stdout, Exc("TypeError",
                    "Object of type " \o response.t \o " is not JSON serializable"))
    /\ UNCHANGED <<world, now, locals, history>>

\* the wall clock advances while the process runs
Tick ==
    /\ pc /= "exited"
    /\ now < MaxClock
    /\ now' = now + 1
    /\ UNCHANGED <<world, pc, locals, process, history>>

Next ==
    \/ CheckArgv
    \/ ParseInput
    \/ ReadFields
    \/ ValidateMessage
    \/ ValidateApiKey
    \/ ConstructChat
    \/ WithModel
    \/ MakeUserMessage
    \/ SendStart
    \/ SendReturn
    \/ SendRaise
    \/ EmitSuccess
    \/ Tick

Spec == Init /\ [][Next]_vars

TypeOK ==
    /\ pc \in {"check_argv", "parse", "read_fields", "validate_message",
               "validate_api_key", "construct", "with_model", "user_message",
               "send", "awaiting", "emit", "exited"}
    /\ now \in 0..MaxClock
    /\ exitCode \in {-1, 0, 1}
    /\ termination \in {"running", "return", "sys.exit", "uncaught"}

\* ------------------------------------------------------------ properties
Exited == pc = "exited"

HasArg == Len(argv) >= 2

IsObjectArg == HasArg /\ argv[2].kind = "object"

Members == argv[2].members

MessageMissing ==
    IsObjectArg /\ ("message" \notin DOMAIN Members \/ Members["message"] = JStr(""))

NonEmptyMessage ==
    /\ IsObjectArg
    /\ "message" \in DOMAIN Members
    /\ Members["message"].t = "string"
    /\ Members["message"].v /= ""

EnvKeySet == \E p \in env : p[1] = EnvVar /\ p[2] /= ""

NoResolvableKey == IsObjectArg /\ "apiKey" \notin DOMAIN Members /\ ~EnvKeySet

KeyResolvable ==
    /\ IsObjectArg
    /\ IF "apiKey" \in DOMAIN Members
       THEN Members["apiKey"].t = "string" /\ Members["apiKey"].v /= ""
       ELSE EnvKeySet

NoCollaboratorCall == \A i \in DOMAIN calls : calls[i].op \notin CollaboratorOps

SendCalls == {i \in DOMAIN calls : calls[i].op = "send_message"}

\* C1: for a JSON object whose message is absent or empty the handler prints
\* exactly {"error": "No message provided"} and exits 1, whatever the other
\* fields and the environment are, and the collaborator is never constructed
\* or called.
C1_NoMessage ==
    MessageMissing =>
        /\ NoCollaboratorCall
        /\ Exited => /\ stdout = <<[error |-> JStr("No message provided")]>>
                     /\ exitCode = 1

C1_Witness ==
    /\ Exited
    /\ MessageMissing
    /\ NoResolvableKey
    /\ stdout = <<[error |-> JStr("No message provided")]>>

\* C2: for a JSON object with a non-empty message, no apiKey member and no
\* non-empty environment key, the handler prints exactly
\* {"error": "No API key provided"} and exits 1 without touching the
\* collaborator.
C2_NoApiKey ==
    (NonEmptyMessage /\ NoResolvableKey) =>
        /\ NoCollaboratorCall
        /\ Exited => /\ stdout = <<[error |-> JStr("No API key provided")]>>
                     /\ exitCode = 1

C2_Witness ==
    /\ Exited
    /\ NonEmptyMessage
    /\ NoResolvableKey
    /\ stdout = <<[error |-> JStr("No API key provided")]>>

\* C3: with a non-empty message and a resolvable key, when send_message
\* returned the string R the handler prints one body with success = true,
\* response = R and a timestamp taken no earlier than the receipt of R, and
\* the exit code is 0.
C3_Success ==
    (Exited /\ NonEmptyMessage /\ KeyResolvable) =>
        \A i \in DOMAIN results :
            (results[i].op = "send_message" /\ results[i].kind = "return"
                /\ results[i].val.t = "str") =>
                /\ Len(stdout) = 1
                /\ DOMAIN stdout[1] = {"success", "response", "timestamp"}
                /\ stdout[1].success = JTrue
                /\ stdout[1].response = JStr(results[i].val.v)
                /\ \E t \in recvAt..now : stdout[1].timestamp = JStr(isoformat(t))
                /\ recvAt >= 0
                /\ exitCode = 0

C3_Witness ==
    /\ Exited
    /\ NonEmptyMessage
    /\ KeyResolvable
    /\ recvAt > 0
    /\ \E i \in DOMAIN results :
         results[i] = Returned("send_message", Str("hello"))
    /\ stdout[1].response = JStr("hello")

\* C4: when LlmChat, with_model or send_message raises a failure with
\* message M and class name C, the handler prints exactly
\* {"error": M, "type": C} with C non-empty, no success body, and exits 1.
C4_CollaboratorFailure ==
    \A i \in DOMAIN results :
        results[i].kind = "raise" =>
            /\ Exited
            /\ results[i].etype /= ""
            /\ stdout = <<[error |-> JStr(results[i].val.v),
                           type |-> JStr(results[i].etype)]>>
            /\ exitCode = 1

C4_Witness ==
    /\ Exited
    /\ \E i \in DOMAIN results :
         results[i] = Raised("send_message", Exc("ConnectionError", "network down"))
    /\ stdout = <<[error |-> JStr("network down"), type |-> JStr("ConnectionError")]>>

\* C5: with no positional argument the handler prints exactly
\* {"error": "No input provided"} and exits 1, and json.loads, os.getenv and
\* the collaborator are never reached.
C5_NoInput ==
    Len(argv) = 1 =>
        /\ calls = << >>
        /\ Exited => /\ stdout = <<[error |-> JStr("No input provided")]>>
                     /\ exitCode = 1

C5_Witness ==
    /\ Exited
    /\ Len(argv) = 1
    /\ stdout = <<[error |-> JStr("No input provided")]>>

\* C6 as stated: malformed JSON in the positional argument escapes the
\* handler, so the process ends abnormally with nothing on standard output.
C6_Original ==
    (Exited /\ HasArg /\ argv[2].kind = "malformed") =>
        /\ termination = "uncaught"
        /\ stdout = << >>

\* C6 amended: malformed JSON in the positional argument is caught by the
\* generic except clause, which prints {"error": <parser message>,
\* "type": "JSONDecodeError"} and exits 1.
C6_ParseFailureCaught ==
    (Exited /\ HasArg /\ argv[2].kind = "malformed") =>
        /\ stdout = <<[error |-> JStr(DecodeErrorMsg(argv[2])),
                       type |-> JStr("JSONDecodeError")]>>
        /\ exitCode = 1
        /\ termination = "sys.exit"

C6_Witness ==
    /\ Exited
    /\ HasArg
    /\ argv[2] = [kind |-> "malformed", src |-> "{bad"]
    /\ Len(stdout) = 1
    /\ stdout[1].type = JStr("JSONDecodeError")

\* C7: a terminated invocation has written exactly one JSON line, and no
\* invocation ever has two: the exit after a fixed error is not caught by
\* the except clause, and a failure while the success body is built gives
\* one error body.
C7_ExactlyOneLine ==
    /\ Len(stdout) <= 1
    /\ Exited => Len(stdout) = 1

C7_Witness ==
    /\ Exited
    /\ \E i \in DOMAIN results : results[i] = Returned("send_message", PyObject)
    /\ Len(stdout) = 1
    /\ stdout[1].type = JStr("TypeError")

\* C8: for any argument list, a terminated invocation has exit code 0 or 1,
\* the code is 0 exactly when the single body has success = true and 1
\* exactly when it has an error field, and no body has both.
C8_ExitCodeMatchesBody ==
    Exited =>
        /\ exitCode \in {0, 1}
        /\ Len(stdout) = 1
        /\ exitCode = 0 <=>
             ("success" \in DOMAIN stdout[1] /\ stdout[1].success = JTrue)
        /\ exitCode = 1 <=> "error" \in DOMAIN stdout[1]
        /\ ~("success" \in DOMAIN stdout[1] /\ "error" \in DOMAIN stdout[1])

C8_Witness ==
    /\ Exited
    /\ HasArg
    /\ argv[2].kind = "scalar"
    /\ exitCode = 1
    /\ "error" \in DOMAIN stdout[1]

\* C9: send_message is started at most once per invocation, also after it
\* failed; it starts only after the message and API-key checks passed and
\* LlmChat and with_model returned; while it is awaited nothing is printed
\* and the process has not exited.
C9_SingleAwaitedSend ==
    /\ Cardinality(SendCalls) <= 1
    /\ \A i \in SendCalls :
         /\ message \notin {Unset, Str(""), PyNone, PyInt("0"), PyFalse}
         /\ api_key \notin {Unset, Str(""), PyNone, PyInt("0"), PyFalse}
         /\ \E j, k \in 1..(i - 1) :
              /\ j < k
              /\ calls[j].op = "LlmChat"
              /\ calls[k].op = "with_model"
         /\ \E j, k \in DOMAIN results :
              /\ j < k
              /\ results[j].op = "LlmChat" /\ results[j].kind = "return"
              /\ results[k].op = "with_model" /\ results[k].kind = "return"
    /\ pc = "awaiting" =>
         /\ stdout = << >>
         /\ exitCode = -1
         /\ termination = "running"
         /\ \A j \in DOMAIN results : results[j].op /= "send_message"

C9_Witness ==
    /\ Exited
    /\ Cardinality(SendCalls) = 1
    /\ \E i \in DOMAIN results :
         results[i].op = "send_message" /\ results[i].kind = "raise"

\* C10: the key handed to LlmChat is the JSON apiKey member whenever that
\* member is present and the environment value only when it is absent; an
\* apiKey that is present but empty fails with "No API key provided" even
\* when the environment holds a non-empty key.
C10_KeyByPresence ==
    IsObjectArg =>
        /\ \A i \in DOMAIN calls :
             calls[i].op = "LlmChat" =>
                calls[i].args[1] =
                    IF "apiKey" \in DOMAIN Members
                    THEN JsonDecode(Members["apiKey"])
                    ELSE Str((CHOOSE p \in env : p[1] = EnvVar)[2])
        /\ (Exited /\ NonEmptyMessage /\ "apiKey" \in DOMAIN Members
                /\ Members["apiKey"] = JStr("")) =>
             /\ stdout = <<[error |-> JStr("No API key provided")]>>
             /\ exitCode = 1
             /\ NoCollaboratorCall

C10_Witness ==
    /\ Exited
    /\ NonEmptyMessage
    /\ "apiKey" \in DOMAIN Members
    /\ Members["apiKey"] = JStr("")
    /\ EnvKeySet
    /\ stdout = <<[error |-> JStr("No API key provided")]>>

====
